---------------------------- MODULE Spec2Model ----------------------------
(***************************************************************************)
(* Model of the HVAC performance calculator (Oktaederim/WTLeistung).       *)
(*                                                                         *)
(*   src/types.ts                 the engine, calculateHvacPerformance,    *)
(*                                and its three psychrometric helpers      *)
(*   src/App.tsx                  the component that owns `inputs` and     *)
(*                                `results` and calls the engine from an   *)
(*                                effect                                   *)
(*   src/components/InputSlider.tsx  the slider with its text field, one   *)
(*                                per input, that owns `displayValue`      *)
(*                                                                         *)
(* The engine computes on JavaScript numbers.  A number is modelled as a   *)
(* decimal floating-point value with a four-digit mantissa and the         *)
(* exponent range of an IEEE-754 double, together with NaN and the two     *)
(* infinities.  The arithmetic follows the IEEE rules the code depends on: *)
(* no operation raises, x/0 is an infinity, 0/0, Infinity-Infinity,        *)
(* 0*Infinity and the logarithm of a negative number are NaN, every        *)
(* ordered comparison with NaN is false, and Math.max / Math.min return    *)
(* NaN when an argument is NaN.  Zero carries no sign (the code never      *)
(* divides by a negative zero).                                            *)
(***************************************************************************)
EXTENDS Integers, Sequences, FiniteSets, TLC

VARIABLES inputs, results, effectPending, probe, displayValue, syncPending, focus

vars == <<inputs, results, effectPending, probe, displayValue, syncPending, focus>>

-----------------------------------------------------------------------------
(* JavaScript numbers                                                      *)

NaN == [k |-> "nan", m |-> 0, e |-> 0]

Infinity == [k |-> "inf", m |-> 1, e |-> 0]

NegInfinity == [k |-> "inf", m |-> -1, e |-> 0]

Zero == [k |-> "fin", m |-> 0, e |-> 0]

Sgn(n) == IF n < 0 THEN -1 ELSE IF n > 0 THEN 1 ELSE 0

IntAbs(n) == IF n < 0 THEN -n ELSE n

Pow10(n) == <<1, 10, 100, 1000, 10000, 100000, 1000000, 10000000,
              100000000, 1000000000>>[n + 1]

\* number of decimal digits of n >= 1
NDigits(n) ==
    IF n < 10 THEN 1 ELSE IF n < 100 THEN 2 ELSE IF n < 1000 THEN 3
    ELSE IF n < 10000 THEN 4 ELSE IF n < 100000 THEN 5
    ELSE IF n < 1000000 THEN 6 ELSE IF n < 10000000 THEN 7
    ELSE IF n < 100000000 THEN 8 ELSE IF n < 1000000000 THEN 9 ELSE 10

\* a signed four-digit mantissa with its exponent, or the value the range
\* of a double turns it into: an infinity above 10^309, zero below 10^-324
Pack(s, mant, ex) ==
    IF ex + 3 > 308 THEN [k |-> "inf", m |-> s, e |-> 0]
    ELSE IF ex + 3 < -324 THEN Zero
    ELSE [k |-> "fin", m |-> s * mant, e |-> ex]

\* the number nearest to n * 10^ex
Norm(n, ex) ==
    IF n = 0 THEN Zero
    ELSE LET a == IntAbs(n)
             d == NDigits(a)
         IN  IF d <= 4
             THEN Pack(Sgn(n), a * Pow10(4 - d), ex - (4 - d))
             ELSE LET p == Pow10(d - 4)
                      q == (a + (p \div 2)) \div p
                  IN  IF q >= 10000
                      THEN Pack(Sgn(n), 1000, ex + (d - 4) + 1)
                      ELSE Pack(Sgn(n), q, ex + (d - 4))

\* a numeric literal: Num(225, -1) is 22.5
Num(n, ex) == Norm(n, ex)

isNaN(a) == a.k = "nan"

isFinite(a) == a.k = "fin"

Neg(a) == IF a.k = "nan" THEN NaN ELSE [a EXCEPT !.m = -a.m]

MathAbs(a) == IF a.k = "nan" THEN NaN ELSE [a EXCEPT !.m = IntAbs(a.m)]

Add(a, b) ==
    IF a.k = "nan" \/ b.k = "nan" THEN NaN
    ELSE IF a.k = "inf"
         THEN (IF b.k = "inf" /\ b.m # a.m THEN NaN ELSE a)
    ELSE IF b.k = "inf" THEN b
    ELSE IF a.m = 0 THEN b
    ELSE IF b.m = 0 THEN a
    ELSE IF a.e - b.e > 5 THEN a
    ELSE IF b.e - a.e > 5 THEN b
    ELSE IF a.e >= b.e THEN Norm(a.m * Pow10(a.e - b.e) + b.m, b.e)
    ELSE Norm(b.m * Pow10(b.e - a.e) + a.m, a.e)

Sub(a, b) == Add(a, Neg(b))

Mul(a, b) ==
    IF a.k = "nan" \/ b.k = "nan" THEN NaN
    ELSE IF a.k = "inf" \/ b.k = "inf"
         THEN (IF a.m = 0 \/ b.m = 0 THEN NaN
               ELSE [k |-> "inf", m |-> Sgn(a.m) * Sgn(b.m), e |-> 0])
    ELSE Norm(a.m * b.m, a.e + b.e)

Div(a, b) ==
    IF a.k = "nan" \/ b.k = "nan" THEN NaN
    ELSE IF a.k = "inf"
         THEN (IF b.k = "inf" THEN NaN
               ELSE [k |-> "inf",
                     m |-> a.m * (IF b.m < 0 THEN -1 ELSE 1), e |-> 0])
    ELSE IF b.k = "inf" THEN Zero
    ELSE IF b.m = 0
         THEN (IF a.m = 0 THEN NaN
               ELSE [k |-> "inf", m |-> Sgn(a.m), e |-> 0])
    ELSE Norm(Sgn(a.m) * Sgn(b.m) * ((IntAbs(a.m) * 100000) \div IntAbs(b.m)),
              a.e - b.e - 5)

\* the sign of a - b, for numbers that are not NaN
Cmp(a, b) == IF a = b THEN 0 ELSE Sgn(Sub(a, b).m)

Lt(a, b) == ~isNaN(a) /\ ~isNaN(b) /\ Cmp(a, b) < 0

Gt(a, b) == ~isNaN(a) /\ ~isNaN(b) /\ Cmp(a, b) > 0

Ge(a, b) == ~isNaN(a) /\ ~isNaN(b) /\ Cmp(a, b) >= 0

Le(a, b) == ~isNaN(a) /\ ~isNaN(b) /\ Cmp(a, b) <= 0

\* the == of two numbers: NaN equals nothing, itself included
Eq(a, b) == ~isNaN(a) /\ ~isNaN(b) /\ a = b

MathMax(a, b) ==
    IF isNaN(a) \/ isNaN(b) THEN NaN ELSE IF Cmp(a, b) >= 0 THEN a ELSE b

MathMin(a, b) ==
    IF isNaN(a) \/ isNaN(b) THEN NaN ELSE IF Cmp(a, b) <= 0 THEN a ELSE b


\* integer division rounding towards zero
TDiv(a, b) == Sgn(a) * Sgn(b) * (IntAbs(a) \div IntAbs(b))

\* integer division rounding to the nearest integer
RDiv(a, b) == Sgn(a) * Sgn(b) * ((2 * IntAbs(a) + IntAbs(b)) \div (2 * IntAbs(b)))

\* the finite number a, of magnitude below 1000, in units of 10^-4
ToFixed4(a) ==
    IF a.e + 4 >= 0 THEN a.m * Pow10(a.e + 4)
    ELSE IF -(a.e + 4) > 5 THEN 0
    ELSE RDiv(a.m, Pow10(-(a.e + 4)))

\* sum of the Taylor terms k, k+1, ... of exp(r/2) in units of 10^-5, where
\* r is in units of 10^-4 and term is the k-th term
RECURSIVE ExpSeries(_, _, _)
ExpSeries(r, term, k) ==
    IF term = 0 \/ k > 14 THEN 0
    ELSE term + ExpSeries(r, TDiv(term * r, 20000 * (k + 1)), k + 1)

\* Math.exp: exp(x) = 10^n * exp(r/2)^2 with x = n*ln(10) + r, |r| <= ln(10)/2
MathExp(x) ==
    IF x.k = "nan" THEN NaN
    ELSE IF x.k = "inf" THEN (IF x.m > 0 THEN Infinity ELSE Zero)
    ELSE IF x.m = 0 THEN Norm(1, 0)
    ELSE IF Cmp(x, Norm(7100, -1)) > 0 THEN Infinity
    ELSE IF Cmp(x, Norm(-7460, -1)) < 0 THEN Zero
    ELSE LET X == ToFixed4(x)
             n == RDiv(X, 23026)
             r == X - n * 23026
             h == Norm(ExpSeries(r, 100000, 0), -5)
             p == Mul(h, h)
         IN  Norm(p.m, p.e + n)

\* sum over j >= i of t^(2j+1) / (2j+1) in units of 10^-5; pw is t^(2i+1) and
\* t2 is t^2, both in units of 10^-5
RECURSIVE AtanhSeries(_, _, _)
AtanhSeries(pw, t2, i) ==
    IF pw = 0 \/ i > 8 THEN 0
    ELSE (pw \div (2 * i + 1)) + AtanhSeries((pw * t2) \div 100000, t2, i + 1)

\* Math.log: ln(m * 10^e) = (e+3) ln(10) + k ln(2) + 2 atanh((y-1)/(y+1))
\* with y = m / (1000 * 2^k) in [1, 2)
MathLog(x) ==
    IF x.k = "nan" THEN NaN
    ELSE IF x.m < 0 THEN NaN
    ELSE IF x.k = "inf" THEN Infinity
    ELSE IF x.m = 0 THEN NegInfinity
    ELSE LET k == IF x.m < 2000 THEN 0 ELSE IF x.m < 4000 THEN 1
                  ELSE IF x.m < 8000 THEN 2 ELSE 3
             c == 1000 * (<<1, 2, 4, 8>>[k + 1])
             t == ((x.m - c) * 100000) \div (x.m + c)
             t2 == (t * t) \div 100000
         IN  Norm((x.e + 3) * 230259 + k * 69315 + 2 * AtanhSeries(t, t2, 0),
                  -5)

\* the largest r in lo..hi with r * r <= n
RECURSIVE ISqrt(_, _, _)
ISqrt(n, lo, hi) ==
    IF lo >= hi THEN lo
    ELSE LET mid == (lo + hi + 1) \div 2
         IN  IF mid * mid <= n THEN ISqrt(n, mid, hi) ELSE ISqrt(n, lo, mid - 1)

\* Math.sqrt
MathSqrt(x) ==
    IF x.k = "nan" THEN NaN
    ELSE IF x.m < 0 THEN NaN
    ELSE IF x.k = "inf" THEN Infinity
    ELSE IF x.m = 0 THEN Zero
    ELSE IF x.e % 2 = 0
         THEN Norm(ISqrt(x.m * 10000, 0, 10000), (x.e - 4) \div 2)
         ELSE Norm(ISqrt(x.m * 100000, 0, 32000), (x.e - 5) \div 2)

Math_PI == Norm(3142, -3)

-----------------------------------------------------------------------------
(* src/types.ts: the engine                                                *)

AIR_DENSITY == Num(1204, -3)

SPECIFIC_HEAT_AIR == Num(1005, -3)

SPECIFIC_HEAT_WATER == Num(4186, -3)

WATER_DENSITY == Num(1000, 0)

ATMOSPHERIC_PRESSURE == Num(101325, -2)

LATENT_HEAT_VAPORIZATION == Num(2260, 0)

RECOMMENDED_WATER_VELOCITY == Num(15, -1)

\* the value the engine's catch block returns
null == [tag |-> "null"]

calculateSaturationVaporPressure(temp) ==
    Mul(Num(6112, -3),
        MathExp(Div(Mul(Num(1767, -2), temp), Add(temp, Num(2435, -1)))))

calculateDewPoint(vaporPressure) ==
    LET numerator ==
            Mul(Num(2435, -1), MathLog(Div(vaporPressure, Num(6112, -3))))
        denominator ==
            Sub(Num(1767, -2), MathLog(Div(vaporPressure, Num(6112, -3))))
    IN  Div(numerator, denominator)

calculateAbsoluteHumidity(vaporPressure) ==
    Div(Mul(Num(622, 0), vaporPressure),
        Sub(ATMOSPHERIC_PRESSURE, vaporPressure))

\* the mode test with >= in place of >
isHeatingMode_GeZero(deltaT_air) == Ge(deltaT_air, Zero)

\* const isHeating = deltaT_air > 0
isHeatingMode(deltaT_air) == Gt(deltaT_air, Zero)

\* Math.max(lo, Math.min(x, hi))
clamp(x, lo, hi) == MathMax(lo, MathMin(x, hi))

\* step 3 without the test of the mode: the dew-point test decides alone
humidityPath_NoModeCheck(isHeating, targetTemp, dewPoint, initialVaporPressure, initialAbsoluteHumidity, airMassFlow_kg_per_s) ==
    LET finalSatPressure == calculateSaturationVaporPressure(targetTemp)
        finalAbsoluteHumidity == calculateAbsoluteHumidity(finalSatPressure)
    IN  IF Ge(targetTemp, dewPoint)
        THEN [finalHumidity |->
                  Mul(Div(initialVaporPressure, finalSatPressure), Num(100, 0)),
              finalAbsoluteHumidity |-> initialAbsoluteHumidity,
              latentPower |-> Zero]
        ELSE [finalHumidity |-> Num(100, 0),
              finalAbsoluteHumidity |-> finalAbsoluteHumidity,
              latentPower |->
                  Neg(MathAbs(Mul(Mul(airMassFlow_kg_per_s,
                                      Div(Sub(initialAbsoluteHumidity,
                                              finalAbsoluteHumidity),
                                          Num(1000, 0))),
                                  LATENT_HEAT_VAPORIZATION)))]

\* the if / else of step 3: final relative humidity before the clamp, final
\* absolute humidity and latent power
humidityPath(isHeating, targetTemp, dewPoint, initialVaporPressure, initialAbsoluteHumidity, airMassFlow_kg_per_s) ==
    LET finalSatPressure == calculateSaturationVaporPressure(targetTemp)
        constantAbsoluteHumidity ==
            [finalHumidity |->
                 Mul(Div(initialVaporPressure, finalSatPressure), Num(100, 0)),
             finalAbsoluteHumidity |-> initialAbsoluteHumidity,
             latentPower |-> Zero]
    IN  IF isHeating THEN constantAbsoluteHumidity
        ELSE IF Ge(targetTemp, dewPoint) THEN constantAbsoluteHumidity
        ELSE LET finalAbsoluteHumidity ==
                     calculateAbsoluteHumidity(finalSatPressure)
                 deltaAbsoluteHumidity_g_per_kg ==
                     Sub(initialAbsoluteHumidity, finalAbsoluteHumidity)
                 waterCondensed_kg_per_s ==
                     Mul(airMassFlow_kg_per_s,
                         Div(deltaAbsoluteHumidity_g_per_kg, Num(1000, 0)))
             IN  [finalHumidity |-> Num(100, 0),
                  finalAbsoluteHumidity |-> finalAbsoluteHumidity,
                  latentPower |->
                      Neg(MathAbs(Mul(waterCondensed_kg_per_s,
                                      LATENT_HEAT_VAPORIZATION)))]

\* step 4: water volume flow and recommended pipe diameter
waterSizing(totalPower_kW, supplyTemp, returnTemp) ==
    LET deltaT_water == MathAbs(Sub(supplyTemp, returnTemp))
        waterMassFlow_kg_per_s ==
            Div(MathAbs(totalPower_kW), Mul(SPECIFIC_HEAT_WATER, deltaT_water))
        waterVolumeFlow_m3_per_h ==
            Div(Mul(waterMassFlow_kg_per_s, Num(3600, 0)), WATER_DENSITY)
        waterFlow_m3_per_s == Div(waterVolumeFlow_m3_per_h, Num(3600, 0))
        area_m2 == Div(waterFlow_m3_per_s, RECOMMENDED_WATER_VELOCITY)
        diameter_m == MathSqrt(Div(Mul(Num(4, 0), area_m2), Math_PI))
    IN  IF Gt(deltaT_water, Zero)
        THEN [waterVolumeFlow |-> waterVolumeFlow_m3_per_h,
              recommendedPipeDiameter |->
                  IF isFinite(waterVolumeFlow_m3_per_h)
                  THEN Mul(diameter_m, Num(1000, 0))
                  ELSE Infinity]
        ELSE [waterVolumeFlow |-> Infinity,
              recommendedPipeDiameter |-> Infinity]

\* step 5 without the 1e-6 guard on the potential temperature difference
efficiencyOf_NoThreshold(isHeating, outsideTemp, targetTemp, supplyTemp) ==
    LET potential_deltaT == Sub(supplyTemp, outsideTemp)
        validScenario ==
            \/ isHeating /\ Gt(potential_deltaT, Zero)
            \/ ~isHeating /\ Lt(potential_deltaT, Zero)
        efficiency ==
            IF validScenario
            THEN Div(Sub(targetTemp, outsideTemp), potential_deltaT)
            ELSE Zero
    IN  clamp(efficiency, Zero, Num(1, 0))

\* step 5: efficiency
efficiencyOf(isHeating, outsideTemp, targetTemp, supplyTemp) ==
    LET potential_deltaT == Sub(supplyTemp, outsideTemp)
        validScenario ==
            \/ isHeating /\ Gt(potential_deltaT, Zero)
            \/ ~isHeating /\ Lt(potential_deltaT, Zero)
        efficiency ==
            IF validScenario /\ Gt(MathAbs(potential_deltaT), Num(1, -6))
            THEN Div(Sub(targetTemp, outsideTemp), potential_deltaT)
            ELSE Zero
    IN  clamp(efficiency, Zero, Num(1, 0))

\* a runtime in which the logarithm of a non-positive number throws
ComputationFault_OnLogDomain(inp) ==
    ~Gt(Mul(Div(inp.outsideHumidity, Num(100, 0)),
            calculateSaturationVaporPressure(inp.outsideTemp)), Zero)

\* whether a statement of the try block throws.  The block destructures an
\* object and does arithmetic and Math calls on numbers; none of them throws:
\* Math.log of a non-positive number and a division by zero return NaN or an
\* infinity.
ComputationFault(inp) == FALSE

calculateHvacPerformance(inp) ==
    IF ComputationFault(inp) THEN null
    ELSE
    LET airMassFlow_kg_per_s ==
            Div(Mul(inp.volumeFlow, AIR_DENSITY), Num(3600, 0))
        deltaT_air == Sub(inp.targetTemp, inp.outsideTemp)
        isHeating == isHeatingMode(deltaT_air)
        sensiblePower_kW ==
            Mul(Mul(airMassFlow_kg_per_s, SPECIFIC_HEAT_AIR), deltaT_air)
        initialSatPressure == calculateSaturationVaporPressure(inp.outsideTemp)
        initialVaporPressure ==
            Mul(Div(inp.outsideHumidity, Num(100, 0)), initialSatPressure)
        dewPoint == calculateDewPoint(initialVaporPressure)
        initialAbsoluteHumidity ==
            calculateAbsoluteHumidity(initialVaporPressure)
        path == humidityPath(isHeating, inp.targetTemp, dewPoint,
                             initialVaporPressure, initialAbsoluteHumidity,
                             airMassFlow_kg_per_s)
        totalPower_kW == Add(sensiblePower_kW, path.latentPower)
        water == waterSizing(totalPower_kW, inp.supplyTemp, inp.returnTemp)
    IN  [sensiblePower |-> sensiblePower_kW,
         latentPower |-> path.latentPower,
         totalPower |-> totalPower_kW,
         waterVolumeFlow |-> water.waterVolumeFlow,
         finalHumidity |-> clamp(path.finalHumidity, Zero, Num(100, 0)),
         isHeating |-> isHeating,
         dewPoint |-> dewPoint,
         initialAbsoluteHumidity |-> initialAbsoluteHumidity,
         finalAbsoluteHumidity |-> path.finalAbsoluteHumidity,
         efficiency |-> efficiencyOf(isHeating, inp.outsideTemp, inp.targetTemp,
                                     inp.supplyTemp),
         recommendedPipeDiameter |-> water.recommendedPipeDiameter]

-----------------------------------------------------------------------------
(* src/App.tsx: the component state and the effect that calls the engine   *)

Fields == {"outsideTemp", "outsideHumidity", "volumeFlow", "targetTemp",
           "supplyTemp", "returnTemp"}

ResultFields == {"sensiblePower", "latentPower", "totalPower",
                 "waterVolumeFlow", "finalHumidity", "isHeating", "dewPoint",
                 "initialAbsoluteHumidity", "finalAbsoluteHumidity",
                 "efficiency", "recommendedPipeDiameter"}

\* useState<HvacInputs>({...})
InitialInputs ==
    [outsideTemp |-> Num(10, 0), outsideHumidity |-> Num(60, 0),
     volumeFlow |-> Num(2000, 0), targetTemp |-> Num(22, 0),
     supplyTemp |-> Num(60, 0), returnTemp |-> Num(40, 0)]

\* the values a slider of the page hands to onChange in this model, each
\* within the slider's [min, max]
SliderValues(field) ==
    CASE field = "outsideTemp" -> {Num(10, 0), Num(30, 0)}
      [] field = "outsideHumidity" -> {Num(0, 0), Num(60, 0)}
      [] field = "volumeFlow" -> {Num(2000, 0)}
      [] field = "targetTemp" -> {Num(12, 0), Num(22, 0)}
      [] field = "supplyTemp" -> {Num(6, 0), Num(60, 0)}
      [] field = "returnTemp" -> {Num(6, 0), Num(40, 0)}

\* min={...} max={...} of the InputSlider of each input
min(field) ==
    CASE field = "outsideTemp" -> Num(-30, 0)
      [] field = "outsideHumidity" -> Num(0, 0)
      [] field = "volumeFlow" -> Num(100, 0)
      [] field = "targetTemp" -> Num(-10, 0)
      [] field = "supplyTemp" -> Num(0, 0)
      [] field = "returnTemp" -> Num(0, 0)

max(field) ==
    CASE field = "outsideTemp" -> Num(50, 0)
      [] field = "outsideHumidity" -> Num(100, 0)
      [] field = "volumeFlow" -> Num(150000, 0)
      [] field = "targetTemp" -> Num(60, 0)
      [] field = "supplyTemp" -> Num(100, 0)
      [] field = "returnTemp" -> Num(100, 0)

-----------------------------------------------------------------------------
(* The text of a text field is a sequence of characters.  parseFloat and   *)
(* Number.prototype.toString are computed on it: parseFloat reads the      *)
(* longest prefix that is a decimal literal (sign, digits, a point and     *)
(* digits) and gives NaN when there is none; toString writes the shortest  *)
(* decimal form, and the exponent form from 1e21 up and below 1e-6.        *)
(* Leading white space, an exponent part and the word Infinity are not     *)
(* among the characters typed in this model.                               *)

isDigit(c) == c \in {"0", "1", "2", "3", "4", "5", "6", "7", "8", "9"}

DigitOf(c) ==
    CASE c = "0" -> 0 [] c = "1" -> 1 [] c = "2" -> 2 [] c = "3" -> 3
      [] c = "4" -> 4 [] c = "5" -> 5 [] c = "6" -> 6 [] c = "7" -> 7
      [] c = "8" -> 8 [] c = "9" -> 9

DigitChar(d) == <<"0", "1", "2", "3", "4", "5", "6", "7", "8", "9">>[d + 1]

\* the index after the run of digits of text that starts at index i
RECURSIVE DigitsEnd(_, _)
DigitsEnd(text, i) ==
    IF i <= Len(text) /\ isDigit(text[i]) THEN DigitsEnd(text, i + 1) ELSE i

\* acc extended by the digits text[i .. j], read as a decimal numeral
RECURSIVE DigitsValue(_, _, _, _)
DigitsValue(text, i, j, acc) ==
    IF i > j THEN acc
    ELSE DigitsValue(text, i + 1, j, acc * 10 + DigitOf(text[i]))

parseFloat(text) ==
    LET signed == Len(text) >= 1 /\ text[1] \in {"-", "+"}
        sign == IF signed /\ text[1] = "-" THEN -1 ELSE 1
        start == IF signed THEN 2 ELSE 1
        intEnd == DigitsEnd(text, start)
        hasPoint == intEnd <= Len(text) /\ text[intEnd] = "."
        fracEnd == IF hasPoint THEN DigitsEnd(text, intEnd + 1) ELSE intEnd
        nInt == intEnd - start
        nFrac == IF hasPoint THEN fracEnd - intEnd - 1 ELSE 0
        whole == DigitsValue(text, start, intEnd - 1, 0)
    IN  IF nInt + nFrac = 0 THEN NaN
        ELSE Norm(sign * DigitsValue(text, intEnd + 1, fracEnd - 1, whole), -nFrac)

\* the decimal numeral of n >= 0
RECURSIVE IntChars(_)
IntChars(n) ==
    IF n < 10 THEN <<DigitChar(n)>>
    ELSE Append(IntChars(n \div 10), DigitChar(n % 10))

Zeros(n) == [i \in 1 .. n |-> "0"]

\* n >= 1 without its trailing zeros, and the number of zeros taken off
RECURSIVE StripZeros(_, _)
StripZeros(n, ex) ==
    IF n % 10 = 0 THEN StripZeros(n \div 10, ex + 1) ELSE <<n, ex>>

\* value.toString()
toString(x) ==
    IF x.k = "nan" THEN <<"N", "a", "N">>
    ELSE IF x.k = "inf"
    THEN (IF x.m < 0 THEN <<"-">> ELSE <<>>) \o <<"I", "n", "f", "i", "n", "i", "t", "y">>
    ELSE IF x.m = 0 THEN <<"0">>
    ELSE LET st == StripZeros(IntAbs(x.m), x.e)
             m == st[1]
             ex == st[2]
             d == NDigits(m)
             n == ex + d - 1
             sgn == IF x.m < 0 THEN <<"-">> ELSE <<>>
             digits == IntChars(m)
         IN  sgn \o
             (IF n > 20 \/ n < -6
              THEN <<digits[1]>>
                   \o (IF d > 1 THEN <<".">> \o SubSeq(digits, 2, d) ELSE <<>>)
                   \o <<"e", IF n < 0 THEN "-" ELSE "+">> \o IntChars(IntAbs(n))
              ELSE IF ex >= 0 THEN digits \o Zeros(ex)
              ELSE IF d > -ex
              THEN SubSeq(digits, 1, d + ex) \o <<".">> \o SubSeq(digits, d + ex + 1, d)
              ELSE <<"0", ".">> \o Zeros(-ex - d) \o digits)

\* the characters typed into a text field in this model, and the longest text.
\* No text of these characters reads as a zero, so that the sign of a zero,
\* which the comparison of the dependencies of an effect tells apart, does not
\* come up.
TextChars == {"-", ".", "1", "5"}

MaxTextLen == 3

Texts == UNION {[1 .. n -> TextChars] : n \in 0 .. MaxTextLen}

\* the InputSlider the user works with in the model of the text field: the
\* one of targetTemp, whose two limits both differ from zero
PageFields == {"targetTemp"}

-----------------------------------------------------------------------------
(* The page: App and its six InputSliders                                  *)

\* no call of the engine remembered yet
none == [tag |-> "none"]

\* const [inputs, setInputs] = useState(...); const [results, setResults] =
\* useState(null); each InputSlider starts with useState(value.toString());
\* the effects of the first render are pending, the one of each slider and
\* the one of App
Init ==
    /\ inputs = InitialInputs
    /\ results = null
    /\ effectPending = TRUE
    /\ probe = none
    /\ displayValue = [f \in Fields |-> toString(InitialInputs[f])]
    /\ syncPending = Fields
    /\ focus = "none"

\* handleInputChange(field)(value): setInputs(prev => ({...prev, [field]:
\* value})).  The new object re-renders the component and schedules the effect
\* on [inputs]; React runs the effect of a render before the next one commits.
\* The InputSlider of the field is rendered with the new value, and its effect
\* on [value] is scheduled when the value is another number than before.
handleInputChange(field, value) ==
    /\ ~effectPending
    /\ syncPending = {}
    /\ inputs' = [inputs EXCEPT ![field] = value]
    /\ effectPending' = TRUE
    /\ syncPending' = IF value # inputs[field] THEN {field} ELSE {}
    /\ UNCHANGED <<results, probe, displayValue>>

\* handleSliderChange: onChange(Number(e.target.value)), value the number the
\* range input holds
handleSliderChange(field, value) ==
    /\ handleInputChange(field, value)
    /\ UNCHANGED focus

\* handleInputChange of InputSlider: setDisplayValue(e.target.value); the text
\* field has the focus while it is typed into
InputSlider_handleInputChange(field, text) ==
    /\ ~effectPending
    /\ syncPending = {}
    /\ focus \in {"none", field}
    /\ displayValue' = [displayValue EXCEPT ![field] = text]
    /\ focus' = field
    /\ UNCHANGED <<inputs, results, effectPending, probe, syncPending>>

\* a blur that commits the typed number without the upper limit
handleInputBlur_NoUpperClamp(field) ==
    /\ ~effectPending
    /\ syncPending = {}
    /\ focus = field
    /\ focus' = "none"
    /\ LET numValue == parseFloat(displayValue[field])
       IN  IF isNaN(numValue)
           THEN /\ displayValue' = [displayValue EXCEPT ![field] = toString(inputs[field])]
                /\ UNCHANGED <<inputs, results, effectPending, probe, syncPending>>
           ELSE handleInputChange(field, IF Lt(numValue, min(field)) THEN min(field) ELSE numValue)

\* handleInputBlur: the text field loses the focus with the text it shows
handleInputBlur(field) ==
    /\ ~effectPending
    /\ syncPending = {}
    /\ focus = field
    /\ focus' = "none"
    /\ LET numValue == parseFloat(displayValue[field])
           atLeastMin == IF Lt(numValue, min(field)) THEN min(field) ELSE numValue
           clamped == IF Gt(atLeastMin, max(field)) THEN max(field) ELSE atLeastMin
       IN  IF isNaN(numValue)
           THEN /\ displayValue' = [displayValue EXCEPT ![field] = toString(inputs[field])]
                /\ UNCHANGED <<inputs, results, effectPending, probe, syncPending>>
           ELSE handleInputChange(field, clamped)

\* the effect of InputSlider on [value]: setDisplayValue(value.toString())
SyncEffect(field) ==
    /\ field \in syncPending
    /\ displayValue' = [displayValue EXCEPT ![field] = toString(inputs[field])]
    /\ syncPending' = syncPending \ {field}
    /\ UNCHANGED <<inputs, results, effectPending, probe, focus>>

\* probe is a history variable: it remembers the snapshot and the value of one
\* earlier call of the engine, chosen freely, and whether a call with another
\* snapshot came after it.
Remember(call) ==
    {IF probe = none THEN none
     ELSE [probe EXCEPT !.other = probe.other \/ call.in # probe.in],
     [in |-> call.in, out |-> call.out, other |-> FALSE]}

\* an engine with a latent power that outlives the call: a call that does not
\* condense returns the latent power left by the call before it
RunEffect_Stateful ==
    /\ effectPending
    /\ syncPending = {}
    /\ results' =
           LET r == calculateHvacPerformance(inputs)
           IN  IF results # null /\ r # null /\ Eq(r.latentPower, Zero)
               THEN [r EXCEPT !.latentPower = results.latentPower]
               ELSE r
    /\ effectPending' = FALSE
    /\ probe' \in Remember([in |-> inputs, out |-> results'])
    /\ UNCHANGED <<inputs, displayValue, syncPending, focus>>

\* the effect of App: const calculatedResults =
\* calculateHvacPerformance(inputs); setResults(calculatedResults).  React runs
\* the effects of the children of a render before the effect of the parent.
RunEffect ==
    /\ effectPending
    /\ syncPending = {}
    /\ results' = calculateHvacPerformance(inputs)
    /\ effectPending' = FALSE
    /\ probe' \in Remember([in |-> inputs, out |-> results'])
    /\ UNCHANGED <<inputs, displayValue, syncPending, focus>>

\* the page driven by its sliders
Next ==
    \/ \E field \in Fields : \E value \in SliderValues(field) :
           handleSliderChange(field, value)
    \/ \E field \in Fields : SyncEffect(field)
    \/ RunEffect

Spec == Init /\ [][Next]_vars

\* the page driven by the slider and the text field of the inputs in
\* PageFields; no call of the engine is remembered
PageNext ==
    \/ \E field \in PageFields : \E value \in SliderValues(field) :
           handleSliderChange(field, value)
    \/ \E field \in PageFields : \E text \in Texts :
           InputSlider_handleInputChange(field, text)
    \/ \E field \in Fields : handleInputBlur(field)
    \/ \E field \in Fields : SyncEffect(field)
    \/ RunEffect /\ UNCHANGED probe

PageSpec == Init /\ [][PageNext]_vars

-----------------------------------------------------------------------------
(* The engine as a function of its argument: every snapshot of a grid of   *)
(* numbers is handed to one call.  The grid holds ordinary values, the     *)
(* documented out-of-range ones (negative humidity, humidity above 100,    *)
(* zero airflow) and the singular points of the formulas at moderate       *)
(* magnitude: zero humidity, a temperature next to the pole of the Magnus  *)
(* exponent at -243.5, supplyTemp = returnTemp, supplyTemp = outsideTemp   *)
(* and a supplyTemp within 1e-6 of outsideTemp.  Every value is of         *)
(* moderate magnitude: inputs near the end of the range of a double, whose *)
(* first product already overflows, are not in the grid.                   *)

HumiditySteps == 2

FlowSteps == 2

OutsideTemps == {Num(-244, 0), Num(0, 0), Num(10, 0), Num(30, 0)}

Humidities == {Num(50 * i, 0) : i \in -1 .. HumiditySteps}

VolumeFlows == {Num(1000 * i, 0) : i \in 0 .. FlowSteps}

TargetTemps == {Num(-244, 0), Num(10, 0), Num(12, 0), Num(22, 0)}

SupplyTemps == {Num(1, -7), Num(6, 0), Num(10, 0), Num(60, 0)}

ReturnTemps == {Num(6, 0), Num(12, 0), Num(40, 0)}

Snapshots ==
    [outsideTemp : OutsideTemps, outsideHumidity : Humidities,
     volumeFlow : VolumeFlows, targetTemp : TargetTemps,
     supplyTemp : SupplyTemps, returnTemp : ReturnTemps]

EngineInit ==
    /\ inputs \in Snapshots
    /\ results = null
    /\ effectPending = TRUE
    /\ probe = none
    /\ displayValue = [f \in Fields |-> toString(inputs[f])]
    /\ syncPending = {}
    /\ focus = "none"

EngineNext == RunEffect

EngineSpec == EngineInit /\ [][EngineNext]_vars

\* the engine has returned for the snapshot in inputs
Returned == ~effectPending

-----------------------------------------------------------------------------
(* Claims about the engine, checked under EngineSpec                       *)

Cooling == ~Gt(inputs.targetTemp, inputs.outsideTemp)

\* C1: for every snapshot for which the engine returns a result, isHeating is
\* true exactly when targetTemp > outsideTemp (equal temperatures give false),
\* and whenever isHeating is true latentPower == 0 and totalPower ==
\* sensiblePower.
C1_ModeConsistency ==
    Returned /\ results # null =>
        /\ results.isHeating <=> Gt(inputs.targetTemp, inputs.outsideTemp)
        /\ results.isHeating =>
               /\ Eq(results.latentPower, Zero)
               /\ Eq(results.totalPower, results.sensiblePower)

\* a heating result with positive sensible power has been returned
C1_Witness ==
    /\ Returned /\ results # null
    /\ results.isHeating
    /\ Gt(results.sensiblePower, Zero)
    /\ Eq(results.totalPower, results.sensiblePower)

\* C2: in cooling mode, for outsideHumidity in 0..100, the condensation result
\* is produced only when targetTemp < dewPoint; in every other cooling case
\* finalAbsoluteHumidity == initialAbsoluteHumidity and latentPower == 0.
C2_CondensationOnlyBelowDewPoint ==
    /\ Returned /\ results # null
    /\ Cooling
    /\ Ge(inputs.outsideHumidity, Zero)
    /\ Le(inputs.outsideHumidity, Num(100, 0))
    /\ ~Lt(inputs.targetTemp, results.dewPoint)
    => /\ Eq(results.finalAbsoluteHumidity, results.initialAbsoluteHumidity)
       /\ Eq(results.latentPower, Zero)

\* C3: when an arithmetic operation of the engine produces a non-representable
\* result other than the infinities of water sizing, as the dew-point
\* logarithm does for outsideHumidity <= 0, the engine returns null and not a
\* result record.
C3_FaultReturnsNull ==
    Returned /\ Le(inputs.outsideHumidity, Zero) => results = null

C5_Clamps ==
    Returned /\ results # null =>
        /\ Ge(results.finalHumidity, Zero)
        /\ Le(results.finalHumidity, Num(100, 0))
        /\ Ge(results.efficiency, Zero)
        /\ Le(results.efficiency, Num(1, 0))

\* C6: for all inputs latentPower <= 0, and latentPower != 0 only when
\* isHeating is false.
C6_CondensationSign ==
    Returned /\ results # null =>
        /\ Le(results.latentPower, Zero)
        /\ ~Eq(results.latentPower, Zero) => ~results.isHeating

\* C7: waterVolumeFlow and recommendedPipeDiameter are both positive infinity
\* whenever supplyTemp == returnTemp, in a normal result record; for finite
\* inputs with supplyTemp != returnTemp both are finite and non-negative.
C7_InfinityOnlyInDegenerateLoop ==
    Returned =>
        /\ results # null
        /\ IF Eq(inputs.supplyTemp, inputs.returnTemp)
           THEN /\ results.waterVolumeFlow = Infinity
                /\ results.recommendedPipeDiameter = Infinity
           ELSE /\ isFinite(results.waterVolumeFlow)
                /\ isFinite(results.recommendedPipeDiameter)
                /\ Ge(results.waterVolumeFlow, Zero)
                /\ Ge(results.recommendedPipeDiameter, Zero)

\* the ratio (targetTemp - outsideTemp) / (supplyTemp - outsideTemp) cut to
\* the interval [0, 1]
ClampedRatio ==
    LET ratio == Div(Sub(inputs.targetTemp, inputs.outsideTemp),
                     Sub(inputs.supplyTemp, inputs.outsideTemp))
    IN  IF Lt(ratio, Zero) THEN Zero
        ELSE IF Gt(ratio, Num(1, 0)) THEN Num(1, 0) ELSE ratio

\* the sign of supplyTemp - outsideTemp agrees with the mode and its
\* magnitude exceeds 1e-6
SignAgreesWithMode ==
    LET potential == Sub(inputs.supplyTemp, inputs.outsideTemp)
    IN  /\ IF Gt(inputs.targetTemp, inputs.outsideTemp)
           THEN Gt(potential, Zero) ELSE Lt(potential, Zero)
        /\ \/ Gt(potential, Num(1, -6))
           \/ Lt(potential, Num(-1, -6))

\* C8: efficiency equals (targetTemp - outsideTemp) / (supplyTemp -
\* outsideTemp) clamped to [0,1] exactly when the sign of supplyTemp -
\* outsideTemp agrees with the mode and |supplyTemp - outsideTemp| > 1e-6; in
\* every other configuration efficiency is 0.
C8_Efficiency ==
    Returned /\ results # null =>
        IF SignAgreesWithMode
        THEN Eq(results.efficiency, ClampedRatio)
        ELSE Eq(results.efficiency, Zero)

\* an efficiency strictly between 0 and 1 has been returned
C8_Witness ==
    /\ Returned /\ results # null
    /\ SignAgreesWithMode
    /\ Gt(results.efficiency, Zero)
    /\ Lt(results.efficiency, Num(1, 0))

-----------------------------------------------------------------------------
(* Claims about the calls the page makes, checked under Spec               *)

-----------------------------------------------------------------------------
(* Claims about the text field of InputSlider, checked under PageSpec      *)

InRange(field, x) == Ge(x, min(field)) /\ Le(x, max(field))

\* the number a blur commits for the parsed number n
Committed(field, n) ==
    IF Lt(n, min(field)) THEN min(field)
    ELSE IF Gt(n, max(field)) THEN max(field) ELSE n

\* the text field of the input loses the focus in this step
Blurs(field) == focus = field /\ focus' = "none"

\* C11: after any sequence of typing, blur and slider moves, every input held
\* by the parent, and so every input handed to the engine, lies within the
\* [min, max] of its slider; a blur commits a typed number below min as min,
\* one above max as max and another one as it is, and it leaves the inputs
\* alone, with no effect of the parent scheduled, when the text does not parse
\* as a number.
C11_CommitsWithinRange ==
    /\ [](\A f \in Fields : InRange(f, inputs[f]))
    /\ [][\A f \in Fields : Blurs(f) =>
              LET n == parseFloat(displayValue[f])
              IN  IF isNaN(n)
                  THEN inputs' = inputs /\ effectPending' = effectPending
                  ELSE /\ inputs' = [inputs EXCEPT ![f] = Committed(f, n)]
                       /\ effectPending']_vars

\* a blur has just committed max for a typed number above max
C11_Witness ==
    \E f \in Fields :
        /\ focus = "none"
        /\ effectPending
        /\ Gt(parseFloat(displayValue[f]), max(f))
        /\ inputs[f] = max(f)

\* C12: once the effects have run, the text field of every input that does not
\* have the focus shows the parent's value as a string, also after a blur
\* whose clamped number is the value the parent already holds.
C12_DisplayFollowsValue ==
    \A f \in Fields :
        (focus # f /\ ~effectPending /\ syncPending = {}) =>
            displayValue[f] = toString(inputs[f])


=============================================================================
